---------------------------- MODULE Spec2Model ----------------------------
(***************************************************************************)
(* ETL_JumpStart: Bronze -> Silver -> Gold batch pipeline.                 *)
(*                                                                         *)
(* The module models                                                       *)
(*   - the text of a manifest file and utils.append_manifest_row,          *)
(*   - the DataCleaning engine of utils.py (nine stages, in the order      *)
(*     silver.py chains them),                                             *)
(*   - the drivers bronze.ingest_to_bronze, silver.ingest_to_silver and    *)
(*     gold.ingest_to_gold as processes over the two manifest files and    *)
(*     the three file stores.                                              *)
(*                                                                         *)
(* Text is a sequence of one-character strings, so that parsing and        *)
(* formatting are computed and not assumed.                                *)
(***************************************************************************)
EXTENDS Integers, Sequences, FiniteSets, TLC

(***************************************************************************)
(* Bounds of the model.                                                    *)
(***************************************************************************)
\* rows of a raw table
MaxRows == 3
\* ingestions of raw files
MaxIngest == 2
\* driver runs (the run number is the processed-at timestamp)
MaxRuns == 3
\* calendar days (the day is the partition)
MaxDay == 2
\* append_manifest_row calls in the manifest-file specification
MaxAppend == 3

\* endings after a publisher's name
MaxEndings == 2

(***************************************************************************)
(* Text and numbers.                                                       *)
(***************************************************************************)
Digits == <<"0", "1", "2", "3", "4", "5", "6", "7", "8", "9">>

IsDigit(c) == \E i \in 1..10 : Digits[i] = c

DigitVal(c) == (CHOOSE i \in 1..10 : Digits[i] = c) - 1

\* int(s) for a text of digits, most significant digit first
RECURSIVE ParseDigits(_)
ParseDigits(s) ==
  IF s = <<>> THEN 0
  ELSE 10 * ParseDigits(SubSeq(s, 1, Len(s) - 1)) + DigitVal(s[Len(s)])

AllDigits(s) == s # <<>> /\ \A i \in 1..Len(s) : IsDigit(s[i])

\* str(n) of an int n >= 0
RECURSIVE IntStr(_)
IntStr(n) ==
  IF n < 10 THEN <<Digits[n + 1]>>
  ELSE IntStr(n \div 10) \o <<Digits[(n % 10) + 1]>>

\* str(x) of a float x with an integral value n >= 0: "n.0"
FloatStr(n) == IntStr(n) \o <<".", "0">>

\* the text is d+ "." 0+ : a float with an integral value
IsFloatText(s) ==
  \E k \in 1..Len(s) :
    /\ s[k] = "."
    /\ AllDigits(SubSeq(s, 1, k - 1))
    /\ k < Len(s)
    /\ \A i \in (k + 1)..Len(s) : s[i] = "0"

FloatTextVal(s) ==
  ParseDigits(SubSeq(s, 1, (CHOOSE k \in 1..Len(s) : s[k] = ".") - 1))

\* the text parses as a number (pandas' numeric inference, pd.to_numeric)
IsNumText(s) == AllDigits(s) \/ IsFloatText(s)

NumTextVal(s) == IF AllDigits(s) THEN ParseDigits(s) ELSE FloatTextVal(s)

(***************************************************************************)
(* Cells of a DataFrame.  A cell is null (NaN / <NA>), a number or a       *)
(* text; a column carries a dtype, which decides how a number prints.      *)
(***************************************************************************)
Null == [t |-> "null", n |-> 0, s |-> <<>>]

Num(k) == [t |-> "num", n |-> k, s |-> <<>>]

Str(s) == [t |-> "str", n |-> 0, s |-> s]

\* the columns a raw file of the model has; "w" is a column that rules and
\* metadata may name and no file has
Columns == {"id", "v"}

NanText == <<"n", "a", "n">>

NaText == <<"<", "N", "A", ">">>

\* Series.astype(str) of one cell of a column of dtype dt
CellStr(c, dt) ==
  CASE c.t = "str" -> c.s
    [] c.t = "num" -> IF dt = "float64" THEN FloatStr(c.n) ELSE IntStr(c.n)
    [] OTHER -> IF dt = "Int64" THEN NaText ELSE NanText

\* the values of column col, in row order
Col(rows, col) == [i \in 1..Len(rows) |-> rows[i][col]]

\* rows[i] for the i where mask[i] is true, in order (boolean-mask indexing)
RECURSIVE FilterRows(_, _, _)
FilterRows(rows, mask, i) ==
  IF i > Len(rows) THEN <<>>
  ELSE (IF mask[i] THEN <<rows[i]>> ELSE <<>>) \o FilterRows(rows, mask, i + 1)

\* DataFrame.drop_duplicates(subset = cols, keep = "first"); NaN equals NaN
DropDuplicates(rows, cols) ==
  LET Keep(i) == ~ \E j \in 1..(i - 1) : \A c \in cols : rows[j][c] = rows[i][c]
  IN FilterRows(rows, [pos \in 1..Len(rows) |-> Keep(pos)], 1)

(***************************************************************************)
(* pandas.read_csv of a raw file: a raw table is a sequence of rows of     *)
(* texts, the empty text being an empty field.  A column whose non-empty   *)
(* fields all parse as numbers becomes numeric (int64 without an empty     *)
(* field or a decimal point, float64 otherwise); any other column keeps    *)
(* its texts (object) with NaN for the empty fields.  Every row keeps, as   *)
(* "line", the number of the file's line it was read from.                 *)
(***************************************************************************)
InferDtype(texts) ==
  LET full == {i \in 1..Len(texts) : texts[i] # <<>>}
  IN IF Len(texts) = 0 THEN "object"
     ELSE IF \E i \in full : ~ IsNumText(texts[i]) THEN "object"
     ELSE IF \A i \in 1..Len(texts) : AllDigits(texts[i]) THEN "int64"
     ELSE "float64"

ReadCell(text, dt) ==
  IF text = <<>> THEN Null
  ELSE IF dt = "object" THEN Str(text)
  ELSE Num(NumTextVal(text))

ReadCsv(raw) ==
  LET dt == [c \in Columns |-> InferDtype(Col(raw, c))]
  IN [rows |-> [i \in 1..Len(raw) |->
                 [c \in Columns \cup {"line"} |->
                    IF c = "line" THEN i ELSE ReadCell(raw[i][c], dt[c])]],
      dt |-> dt]

\* len(pd.read_csv(file)): bronze.py counts the rows of the raw file with it
RowCount(raw) == Len(ReadCsv(raw).rows)

(***************************************************************************)
(* The result of a stage: the new DataFrame, or the exception it raised.   *)
(***************************************************************************)
EmptyDf == [rows |-> <<>>, dt |-> [c \in Columns |-> "object"]]

Ok(df) == [ok |-> TRUE, df |-> df, err |-> "none"]

Raise(e) == [ok |-> FALSE, df |-> EmptyDf, err |-> e]

\* column_name of the metadata rows that have flag set, in metadata order
RECURSIVE FlagCols(_, _, _)
FlagCols(meta, flag, i) ==
  IF i > Len(meta) THEN <<>>
  ELSE (IF meta[i][flag] = 1 THEN <<meta[i].column_name>> ELSE <<>>)
       \o FlagCols(meta, flag, i + 1)

Range(seq) == {seq[i] : i \in 1..Len(seq)}

\* df[df[cols].notna().all(axis=1)]
NotNaAll(rows, cols) ==
  LET Keep(i) == \A c \in cols : rows[i][c].t # "null"
  IN FilterRows(rows, [pos \in 1..Len(rows) |-> Keep(pos)], 1)

\* a faulty key stage: the null keys go, the repeated keys stay
primary_keys_not_null(df, meta, rules) ==
  LET pk_cols == Range(FlagCols(meta, "PK", 1))
  IN IF pk_cols = {} THEN Ok(df)
     ELSE IF ~ (pk_cols \subseteq Columns) THEN Raise("KeyError")
     ELSE Ok([df EXCEPT !.rows = NotNaAll(df.rows, pk_cols)])

(***************************************************************************)
(* DataCleaning.validate_primary_keys                                      *)
(***************************************************************************)
validate_primary_keys(df, meta, rules) ==
  LET pk_cols == Range(FlagCols(meta, "PK", 1))
  IN IF pk_cols = {} THEN Ok(df)
     ELSE IF ~ (pk_cols \subseteq Columns) THEN Raise("KeyError")
     ELSE Ok([df EXCEPT !.rows = DropDuplicates(NotNaAll(df.rows, pk_cols), pk_cols)])

(***************************************************************************)
(* DataCleaning.validate_non_nulls                                         *)
(***************************************************************************)
validate_non_nulls(df, meta, rules) ==
  LET nn_cols == Range(FlagCols(meta, "NON_NULLABLE", 1))
  IN IF nn_cols = {} THEN Ok(df)
     ELSE IF ~ (nn_cols \subseteq Columns) THEN Raise("KeyError")
     ELSE Ok([df EXCEPT !.rows = NotNaAll(df.rows, nn_cols)])

(***************************************************************************)
(* DataCleaning.validate_unique: one drop_duplicates per flagged column    *)
(***************************************************************************)
RECURSIVE UniqueLoop(_, _, _)
UniqueLoop(df, cols, i) ==
  IF i > Len(cols) THEN Ok(df)
  ELSE IF cols[i] \notin Columns THEN Raise("KeyError")
  ELSE UniqueLoop([df EXCEPT !.rows = DropDuplicates(df.rows, {cols[i]})], cols, i + 1)

validate_unique(df, meta, rules) == UniqueLoop(df, FlagCols(meta, "UNIQUE", 1), 1)

(***************************************************************************)
(* DataCleaning.validate_datatype.  The declared dtypes of the model are   *)
(* the integer words, the float words and the string fallback.             *)
(***************************************************************************)
\* pd.to_numeric(errors = "coerce") of one cell
ToNumeric(c) ==
  CASE c.t = "num" -> c
    [] c.t = "str" -> IF IsNumText(c.s) THEN Num(NumTextVal(c.s)) ELSE Null
    [] OTHER -> Null

\* one numeric branch: coerce, drop the rows that fail and were not null,
\* store the coerced column under the new dtype
CoerceNumeric(df, col, newdt) ==
  LET Keep(i) == ~ (ToNumeric(df.rows[i][col]).t = "null" /\ df.rows[i][col].t # "null")
      kept == FilterRows(df.rows, [pos \in 1..Len(df.rows) |-> Keep(pos)], 1)
  IN [rows |-> [i \in 1..Len(kept) |-> [kept[i] EXCEPT ![col] = ToNumeric(kept[i][col])]],
      dt |-> [df.dt EXCEPT ![col] = newdt]]

\* the fallback branch: df[col].astype(str)
CoerceString(df, col) ==
  [rows |-> [i \in 1..Len(df.rows) |->
               [df.rows[i] EXCEPT ![col] = Str(CellStr(df.rows[i][col], df.dt[col]))]],
   dt |-> [df.dt EXCEPT ![col] = "object"]]

RECURSIVE DatatypeLoop(_, _, _)
DatatypeLoop(df, meta, i) ==
  IF i > Len(meta) THEN df
  ELSE LET col == meta[i].column_name
           dtype == meta[i].dtype
       IN IF col \notin Columns THEN DatatypeLoop(df, meta, i + 1)
          ELSE IF dtype \in {"int", "integer"}
            THEN DatatypeLoop(CoerceNumeric(df, col, "Int64"), meta, i + 1)
          ELSE IF dtype \in {"float", "double"}
            THEN DatatypeLoop(CoerceNumeric(df, col, "float64"), meta, i + 1)
          ELSE DatatypeLoop(CoerceString(df, col), meta, i + 1)

validate_datatype(df, meta, rules) == Ok(DatatypeLoop(df, meta, 1))

(***************************************************************************)
(* DataCleaning.apply_defaults: fillna per configured column.  The         *)
(* defaults of the model are numbers.                                      *)
(***************************************************************************)
FillNa(df, col, val) ==
  [df EXCEPT !.rows = [i \in 1..Len(df.rows) |->
     IF df.rows[i][col].t = "null" THEN [df.rows[i] EXCEPT ![col] = Num(val)]
     ELSE df.rows[i]]]

RECURSIVE DefaultsLoop(_, _, _)
DefaultsLoop(df, defaults, i) ==
  IF i > Len(defaults) THEN df
  ELSE IF defaults[i].col \in Columns
    THEN DefaultsLoop(FillNa(df, defaults[i].col, defaults[i].val), defaults, i + 1)
  ELSE DefaultsLoop(df, defaults, i + 1)

apply_defaults(df, meta, rules) == Ok(DefaultsLoop(df, rules.defaults, 1))

(***************************************************************************)
(* DataCleaning.apply_mappings: a mapping is named <column>_fix and maps   *)
(* one text to another; Series.replace leaves every other value alone.     *)
(***************************************************************************)
ReplaceValue(df, col, from, to) ==
  [df EXCEPT !.rows = [i \in 1..Len(df.rows) |->
     IF df.rows[i][col] = Str(from) THEN [df.rows[i] EXCEPT ![col] = Str(to)]
     ELSE df.rows[i]]]

RECURSIVE MappingsLoop(_, _, _)
MappingsLoop(df, mappings, i) ==
  IF i > Len(mappings) THEN df
  ELSE IF mappings[i].col \in Columns
    THEN MappingsLoop(ReplaceValue(df, mappings[i].col, mappings[i].from, mappings[i].to),
                      mappings, i + 1)
  ELSE MappingsLoop(df, mappings, i + 1)

apply_mappings(df, meta, rules) == Ok(MappingsLoop(df, rules.mappings, 1))

(***************************************************************************)
(* DataCleaning.apply_ranges: min and max are numbers or absent (None).    *)
(* Comparing a text with a number raises TypeError; a null compares false. *)
(***************************************************************************)
None == -1

\* df[df[col] >= lo] (geq) or df[df[col] <= bound]
Compare(df, col, bound, geq) ==
  IF \E i \in 1..Len(df.rows) : df.rows[i][col].t = "str" THEN Raise("TypeError")
  ELSE LET Keep(i) == /\ df.rows[i][col].t = "num"
                      /\ IF geq THEN df.rows[i][col].n >= bound
                         ELSE df.rows[i][col].n <= bound
       IN Ok([df EXCEPT !.rows = FilterRows(df.rows, [pos \in 1..Len(df.rows) |-> Keep(pos)], 1)])

RECURSIVE RangesLoop(_, _, _)
RangesLoop(df, ranges, i) ==
  IF i > Len(ranges) THEN Ok(df)
  ELSE IF ranges[i].col \notin Columns THEN RangesLoop(df, ranges, i + 1)
  ELSE LET lo == IF ranges[i].min = None THEN Ok(df)
                 ELSE Compare(df, ranges[i].col, ranges[i].min, TRUE)
           hi == IF ~ lo.ok \/ ranges[i].max = None THEN lo
                 ELSE Compare(lo.df, ranges[i].col, ranges[i].max, FALSE)
       IN IF hi.ok THEN RangesLoop(hi.df, ranges, i + 1) ELSE hi

apply_ranges(df, meta, rules) == RangesLoop(df, rules.ranges, 1)

(***************************************************************************)
(* DataCleaning.apply_regex: Series.astype(str).str.match(pattern), which  *)
(* is re.match: the pattern matches at the start of the text.  A pattern   *)
(* of the model is a sequence of character classes: "d" is \d, "w" is \w.  *)
(***************************************************************************)
IsWord(c) == IsDigit(c) \/ c \in {"x", "n", "a", "N", "A", "X", "_"}

InClass(c, class) == IF class = "d" THEN IsDigit(c) ELSE IsWord(c)

\* re.match(pattern, s) is not None
Match(pattern, s) ==
  /\ Len(s) >= Len(pattern)
  /\ \A i \in 1..Len(pattern) : InClass(s[i], pattern[i])

\* re.fullmatch(pattern, s) is not None
FullMatch(pattern, s) == Len(s) = Len(pattern) /\ Match(pattern, s)

RECURSIVE RegexLoop(_, _, _)
RegexLoop(df, regex, i) ==
  IF i > Len(regex) THEN df
  ELSE IF regex[i].col \in Columns
    THEN LET Keep(k) == Match(regex[i].pattern,
                              CellStr(df.rows[k][regex[i].col], df.dt[regex[i].col]))
         IN RegexLoop([df EXCEPT !.rows = FilterRows(df.rows, [pos \in 1..Len(df.rows) |-> Keep(pos)], 1)], regex, i + 1)
  ELSE RegexLoop(df, regex, i + 1)

apply_regex(df, meta, rules) == Ok(RegexLoop(df, rules.regex, 1))

(***************************************************************************)
(* The checksum helpers of the UDF registry, on a text.                    *)
(***************************************************************************)
\* sum(weight(i) * int(d) for i, d in enumerate(val[:n])), i counted from 0
RECURSIVE WeightedSum(_, _, _)
WeightedSum(val, n, weight) ==
  IF n = 0 THEN 0
  ELSE WeightedSum(val, n - 1, weight) + weight[n - 1] * DigitVal(val[n])

validate_isbn10_checksum(val) ==
  IF ~ FullMatch([i \in 1..10 |-> "d"], val) THEN FALSE
  ELSE LET total == WeightedSum(val, 9, [i \in 0..8 |-> 10 - i])
           check == (11 - (total % 11)) % 11
       IN (IF check < 10 THEN IntStr(check) ELSE <<"X">>) = <<val[Len(val)]>>

validate_isbn13_checksum(val) ==
  IF ~ FullMatch([i \in 1..13 |-> "d"], val) THEN FALSE
  ELSE LET total == WeightedSum(val, 12, [i \in 0..11 |-> IF i % 2 = 0 THEN 1 ELSE 3])
           check == (10 - (total % 10)) % 10
       IN check = DigitVal(val[Len(val)])

UDF_REGISTRY == {"validate_isbn10_checksum", "validate_isbn13_checksum"}

(***************************************************************************)
(* DataCleaning.apply_custom_udfs.  The helper is applied to the cell's    *)
(* value: it tests str(val) and then slices val itself, which raises       *)
(* TypeError for a value that is not a text.                               *)
(***************************************************************************)
UdfDigits(udf) == IF udf = "validate_isbn10_checksum" THEN 10 ELSE 13

UdfRaises(c, dt, udf) ==
  c.t # "str" /\ FullMatch([i \in 1..UdfDigits(udf) |-> "d"], CellStr(c, dt))

UdfHolds(c, dt, udf) ==
  IF udf = "validate_isbn10_checksum" THEN validate_isbn10_checksum(CellStr(c, dt))
  ELSE validate_isbn13_checksum(CellStr(c, dt))

RECURSIVE UdfLoop(_, _, _)
UdfLoop(df, checks, i) ==
  IF i > Len(checks) THEN Ok(df)
  ELSE LET col == checks[i].col
           udf == checks[i].udf
       IN IF col \notin Columns \/ udf \notin UDF_REGISTRY THEN UdfLoop(df, checks, i + 1)
          ELSE IF \E k \in 1..Len(df.rows) : UdfRaises(df.rows[k][col], df.dt[col], udf)
            THEN Raise("TypeError")
          ELSE LET Keep(k) == UdfHolds(df.rows[k][col], df.dt[col], udf)
               IN UdfLoop([df EXCEPT !.rows = FilterRows(df.rows, [pos \in 1..Len(df.rows) |-> Keep(pos)], 1)], checks, i + 1)

apply_custom_udfs(df, meta, rules) == UdfLoop(df, rules.custom_checks, 1)

(***************************************************************************)
(* The chain of silver.ingest_to_silver: the nine stages in call order.    *)
(***************************************************************************)
StageOrder ==
  << "validate_primary_keys", "validate_non_nulls", "validate_unique",
     "validate_datatype", "apply_defaults", "apply_mappings", "apply_ranges",
     "apply_regex", "apply_custom_udfs" >>

RunStage(name, df, meta, rules) ==
  CASE name = "validate_primary_keys" -> validate_primary_keys(df, meta, rules)
    [] name = "validate_non_nulls" -> validate_non_nulls(df, meta, rules)
    [] name = "validate_unique" -> validate_unique(df, meta, rules)
    [] name = "validate_datatype" -> validate_datatype(df, meta, rules)
    [] name = "apply_defaults" -> apply_defaults(df, meta, rules)
    [] name = "apply_mappings" -> apply_mappings(df, meta, rules)
    [] name = "apply_ranges" -> apply_ranges(df, meta, rules)
    [] name = "apply_regex" -> apply_regex(df, meta, rules)
    [] OTHER -> apply_custom_udfs(df, meta, rules)

\* the stages from the i-th on; the first exception ends the chain
RECURSIVE RunStages(_, _, _, _)
RunStages(df, meta, rules, i) ==
  IF i > Len(StageOrder) THEN Ok(df)
  ELSE LET r == RunStage(StageOrder[i], df, meta, rules)
       IN IF r.ok THEN RunStages(r.df, meta, rules, i + 1) ELSE r

(***************************************************************************)
(* DataCleaning.__init__: the table name is the part of the file name      *)
(* after its last underscore; the metadata file is read and filtered by    *)
(* it; the rules file is loaded when it exists.  A metadata file is        *)
(* [exists, rows]; a rules file is [state, rules] with state "Missing",    *)
(* "Malformed" (json.load raises) or "Ok".                                 *)
(***************************************************************************)
\* name.split("_")[-1]
RECURSIVE LastSegment(_)
LastSegment(name) ==
  IF name = <<>> THEN <<>>
  ELSE IF name[Len(name)] = "_" THEN <<>>
  ELSE LastSegment(SubSeq(name, 1, Len(name) - 1)) \o <<name[Len(name)]>>

RECURSIVE MetaFor(_, _, _)
MetaFor(metaRows, table, i) ==
  IF i > Len(metaRows) THEN <<>>
  ELSE (IF metaRows[i].table_name = table THEN <<metaRows[i]>> ELSE <<>>)
       \o MetaFor(metaRows, table, i + 1)

NoRules ==
  [defaults |-> <<>>, mappings |-> <<>>, ranges |-> <<>>, regex |-> <<>>,
   custom_checks |-> <<>>]

\* [ok, table_name, df, meta, rules, err]
DataCleaningInit(fname, raw, metaFile, rulesFile) ==
  LET table == LastSegment(fname)
      bad(e) == [ok |-> FALSE, table_name |-> table, df |-> EmptyDf, meta |-> <<>>,
                 rules |-> NoRules, err |-> e]
  IN IF ~ metaFile.exists THEN bad("FileNotFoundError")
     ELSE IF MetaFor(metaFile.rows, table, 1) = <<>> THEN bad("No metadata found")
     ELSE IF rulesFile.state = "Malformed" THEN bad("JSONDecodeError")
     ELSE [ok |-> TRUE, table_name |-> table, df |-> ReadCsv(raw),
           meta |-> MetaFor(metaFile.rows, table, 1),
           rules |-> IF rulesFile.state = "Missing" THEN NoRules ELSE rulesFile.rules,
           err |-> "none"]

\* the whole expression of silver.py lines 50-61: [ok, table_name, df, err]
Clean(fname, raw, metaFile, rulesFile) ==
  LET c == DataCleaningInit(fname, raw, metaFile, rulesFile)
      r == RunStages(c.df, c.meta, c.rules, 1)
  IN IF ~ c.ok THEN [ok |-> FALSE, table_name |-> c.table_name, df |-> EmptyDf, err |-> c.err]
     ELSE [ok |-> r.ok, table_name |-> c.table_name, df |-> r.df, err |-> r.err]

(***************************************************************************)
(* A manifest file.  A file is [exists, lines]; a line is the header line  *)
(* or a data line holding one record, its fields in header order.  The     *)
(* fields rows_in and rows_out are texts (the empty text is an empty       *)
(* field); processed_at is 0 when empty and a run number otherwise (an     *)
(* ISO timestamp never parses as a number, so it is read back as written). *)
(***************************************************************************)
NoRec ==
  [table_name |-> <<>>, source_name |-> "", partition |-> 0, file |-> <<>>,
   ingestion_timestamp |-> 0, processed_at |-> 0, rows_in |-> <<>>,
   rows_out |-> <<>>, status |-> "", error_msg |-> ""]

HeaderLine(header) == [k |-> "header", header |-> header, rec |-> NoRec]

RowLine(record) == [k |-> "row", header |-> "", rec |-> record]

Absent == [exists |-> FALSE, lines |-> <<>>]

(***************************************************************************)
(* utils.append_manifest_row                                               *)
(***************************************************************************)
\* a faulty writer: the header goes before every row
append_row_with_header(file, record, header) ==
  [exists |-> TRUE,
   lines |-> file.lines \o <<HeaderLine(header)>> \o <<RowLine(record)>>]

append_manifest_row(file, record, header) ==
  [exists |-> TRUE,
   lines |-> file.lines
             \o (IF ~ file.exists THEN <<HeaderLine(header)>> ELSE <<>>)
             \o <<RowLine(record)>>]

(***************************************************************************)
(* pd.read_csv of a manifest and DataFrame.to_csv back.  read_csv takes    *)
(* the first line as the header and infers each column's dtype, so a       *)
(* numeric column with an empty field is float64; the drivers cast         *)
(* rows_out to "string", which prints a float64 as a float.                *)
(***************************************************************************)
\* a column's texts as they are written back after read_csv (and the cast)
ColumnRoundTrip(texts) ==
  LET dt == InferDtype(texts)
  IN [i \in 1..Len(texts) |->
        IF texts[i] = <<>> THEN <<>> ELSE CellStr(ReadCell(texts[i], dt), dt)]

\* [ok, rows, err]: the DataFrame of a manifest file
ReadManifest(file) ==
  IF ~ file.exists THEN [ok |-> FALSE, rows |-> <<>>, err |-> "FileNotFoundError"]
  ELSE IF file.lines = <<>> THEN [ok |-> FALSE, rows |-> <<>>, err |-> "EmptyDataError"]
  ELSE IF file.lines[1].k # "header" THEN [ok |-> FALSE, rows |-> <<>>, err |-> "KeyError"]
  ELSE LET recs == [i \in 1..(Len(file.lines) - 1) |-> file.lines[i + 1].rec]
           rin == ColumnRoundTrip([i \in 1..Len(recs) |-> recs[i].rows_in])
           rout == ColumnRoundTrip([i \in 1..Len(recs) |-> recs[i].rows_out])
       IN [ok |-> TRUE,
           rows |-> [i \in 1..Len(recs) |->
                       [recs[i] EXCEPT !.rows_in = rin[i], !.rows_out = rout[i]]],
           err |-> "none"]

\* manifest.to_csv(manifest_path, index=False)
WriteManifest(rows, header) ==
  [exists |-> TRUE,
   lines |-> <<HeaderLine(header)>> \o [i \in 1..Len(rows) |-> RowLine(rows[i])]]

\* the indices of ready = manifest[manifest["status"] == "READY"], in order
RECURSIVE ReadyIndices(_, _)
ReadyIndices(rows, i) ==
  IF i > Len(rows) THEN <<>>
  ELSE (IF rows[i].status = "READY" THEN <<i>> ELSE <<>>) \o ReadyIndices(rows, i + 1)

(***************************************************************************)
(* Inputs of the model: file names, raw tables, metadata and rule files.   *)
(***************************************************************************)
\* "b" is the table the metadata declares; "n_b" is another file of it
FileB == <<"b">>

FileNB == <<"n", "_", "b">>

\* a table the pipeline has no file of
TableA == <<"a">>

IdTexts == {<<>>, <<"1">>, <<"0", "1">>, <<"x">>}

VTexts == {<<>>, <<"1">>, <<"x">>}

RawRows == [id : IdTexts, v : VTexts]

RawTables == UNION {[1..n -> RawRows] : n \in 0..MaxRows}

MetaRow(col, pk, nn, uq, dtype) ==
  [table_name |-> FileB, column_name |-> col, PK |-> pk, NON_NULLABLE |-> nn,
   UNIQUE |-> uq, dtype |-> dtype]

MetaMissing == [exists |-> FALSE, rows |-> <<>>]

\* the metadata declares another table only
MetaOther ==
  [exists |-> TRUE, rows |-> <<[MetaRow("id", 1, 0, 0, "int") EXCEPT !.table_name = TableA]>>]

MetaIntKey ==
  [exists |-> TRUE,
   rows |-> <<MetaRow("id", 1, 0, 0, "int"), MetaRow("v", 0, 1, 0, "int")>>]

MetaTextKey ==
  [exists |-> TRUE,
   rows |-> <<MetaRow("id", 1, 0, 0, "string"), MetaRow("v", 0, 0, 1, "float")>>]

MetaNoColumn ==
  [exists |-> TRUE,
   rows |-> <<MetaRow("id", 0, 0, 0, "integer"), MetaRow("w", 0, 1, 0, "string")>>]

MetaTextValue ==
  [exists |-> TRUE,
   rows |-> <<MetaRow("id", 1, 0, 0, "int"), MetaRow("v", 0, 0, 0, "string")>>]

\* silver_md.csv as the model varies it
MetaFiles ==
  {MetaMissing, MetaOther, MetaIntKey, MetaTextKey, MetaNoColumn, MetaTextValue}

\* <table>_rules.json as the model varies it
RulesMissing == [state |-> "Missing", rules |-> NoRules]

RulesMalformed == [state |-> "Malformed", rules |-> NoRules]

RuleFiles ==
  { RulesMissing,
    RulesMalformed,
    [state |-> "Ok",
     rules |-> [defaults |-> <<[col |-> "v", val |-> 1]>>,
                mappings |-> <<>>,
                ranges |-> <<[col |-> "v", min |-> 1, max |-> None]>>,
                regex |-> <<[col |-> "id", pattern |-> <<"d">>]>>,
                custom_checks |-> <<>>]],
    [state |-> "Ok",
     rules |-> [defaults |-> <<[col |-> "w", val |-> 1]>>,
                mappings |-> <<[col |-> "id", from |-> <<"x">>, to |-> <<"1">>]>>,
                ranges |-> <<[col |-> "w", min |-> 1, max |-> 1]>>,
                regex |-> <<>>,
                custom_checks |-> <<[col |-> "id", udf |-> "validate_isbn10_checksum"],
                                    [col |-> "v", udf |-> "no_such_udf"]>>]] }

(***************************************************************************)
(* State.                                                                  *)
(***************************************************************************)
VARIABLES
  \* one Validation Engine invocation
  ePc,        \* "new", "run", "saved" or "failed"
  eRaw,       \* the raw table of the input file
  eMetaFile,  \* the metadata file
  eRulesFile, \* the rules file
  eC,         \* the DataCleaning object: [table_name, df, meta, rules]
  eLog,       \* names of the stages that have run, in order
  eErr,       \* the exception that ended the invocation, or "none"
  \* one manifest path under a sequence of append_manifest_row calls
  aFile,      \* the file at the path
  aStart,     \* the file before the first call
  aCalls,     \* the records appended so far, in call order
  \* the pipeline: the environment and the files
  day,            \* today: the partition of what is ingested
  clock,          \* driver runs started so far
  ingested,       \* raw files ingested so far
  bronzeStore,    \* 2_bronze: <<partition, file>> -> raw table
  silverStore,    \* 3_silver: <<partition, file>> -> [rows, from]
  goldStore,      \* 4_gold:   <<partition, file>> -> [rows, from]
  silverManifest, \* manifests/silver_manifest.csv
  goldManifest,   \* manifests/gold_manifest.csv
  \* the run of silver.py
  sPc,        \* "idle", "loop", "flush", "returned" or "raised"
  sMem,       \* manifest: the DataFrame in memory
  sReady,     \* the indices of the READY rows, in order
  sPos,       \* position in sReady of the row the loop is at
  sSnap,      \* the files as they were when the run started
  sFlushes,   \* to_csv calls of the run
  \* the run of gold.py
  gPc,
  gMem,
  gReady,
  gPos,
  gSnap,
  gFlushes,
  fPc,        \* a helper call: "idle", "ready", "done" or "again"
  fArg,       \* its argument
  fRes        \* what it returned

engineVars == <<ePc, eRaw, eMetaFile, eRulesFile, eC, eLog, eErr>>

appendVars == <<aFile, aStart, aCalls>>

envVars == <<day, clock, ingested>>

fileVars == <<bronzeStore, silverStore, goldStore, silverManifest, goldManifest>>

silverVars == <<sPc, sMem, sReady, sPos, sSnap, sFlushes>>

goldVars == <<gPc, gMem, gReady, gPos, gSnap, gFlushes>>

pipelineVars == <<envVars, fileVars, silverVars, goldVars>>

callVars == <<fPc, fArg, fRes>>

vars == <<engineVars, appendVars, pipelineVars, callVars>>

(***************************************************************************)
(* The Validation Engine, one stage per step.                              *)
(***************************************************************************)
NoCleaner == [table_name |-> <<>>, df |-> EmptyDf, meta |-> <<>>, rules |-> NoRules]

EngineIdle ==
  /\ ePc = "idle"
  /\ eRaw = <<>>
  /\ eMetaFile = [exists |-> FALSE, rows |-> <<>>]
  /\ eRulesFile = [state |-> "Missing", rules |-> NoRules]
  /\ eC = NoCleaner
  /\ eLog = <<>>
  /\ eErr = "none"

EngineInit ==
  /\ ePc = "new"
  /\ eRaw \in RawTables
  /\ eMetaFile \in MetaFiles
  /\ eRulesFile \in RuleFiles
  /\ eC = NoCleaner
  /\ eLog = <<>>
  /\ eErr = "none"

\* DataCleaning(str(bronze_path), md_rules_path, flex_rules_path)
EngineConstruct ==
  /\ ePc = "new"
  /\ LET c == DataCleaningInit(FileB, eRaw, eMetaFile, eRulesFile)
     IN /\ ePc' = IF c.ok THEN "run" ELSE "failed"
        /\ eC' = [table_name |-> c.table_name, df |-> c.df, meta |-> c.meta,
                  rules |-> c.rules]
        /\ eErr' = c.err
  /\ UNCHANGED <<eRaw, eMetaFile, eRulesFile, eLog>>
  /\ UNCHANGED <<appendVars, pipelineVars, callVars>>

\* the next call of the chain
EngineStage ==
  /\ ePc = "run"
  /\ Len(eLog) < Len(StageOrder)
  /\ LET name == StageOrder[Len(eLog) + 1]
         r == RunStage(name, eC.df, eC.meta, eC.rules)
     IN /\ eLog' = Append(eLog, name)
        /\ ePc' = IF r.ok THEN "run" ELSE "failed"
        /\ eC' = [eC EXCEPT !.df = r.df]
        /\ eErr' = r.err
  /\ UNCHANGED <<eRaw, eMetaFile, eRulesFile>>
  /\ UNCHANGED <<appendVars, pipelineVars, callVars>>

\* cleaner.save(out_dir): the dataset is written as it stands
EngineSave ==
  /\ ePc = "run"
  /\ Len(eLog) = Len(StageOrder)
  /\ ePc' = "saved"
  /\ UNCHANGED <<eRaw, eMetaFile, eRulesFile, eC, eLog, eErr>>
  /\ UNCHANGED <<appendVars, pipelineVars, callVars>>

EngineNext == EngineConstruct \/ EngineStage \/ EngineSave


(***************************************************************************)
(* A manifest path under successive single-writer append_manifest_row      *)
(* calls with one header.  The path starts absent or present and empty.    *)
(***************************************************************************)
SILVER_HEADER == "SILVER_HEADER"

GOLD_HEADER == "GOLD_HEADER"

Rec(table, part, file, its, pat, rin, rout, status, err) ==
  [table_name |-> table, source_name |-> "src", partition |-> part, file |-> file,
   ingestion_timestamp |-> its, processed_at |-> pat, rows_in |-> rin,
   rows_out |-> rout, status |-> status, error_msg |-> err]

AppendRecords ==
  {Rec(FileB, d, f, d, 0, IntStr(n), <<>>, "READY", "") :
     d \in 1..2, f \in {FileB, FileNB}, n \in 1..2}

PresentEmpty == [exists |-> TRUE, lines |-> <<>>]

AppendIdle == aFile = Absent /\ aStart = Absent /\ aCalls = <<>>

AppendInit ==
  /\ aStart \in {Absent, PresentEmpty}
  /\ aFile = aStart
  /\ aCalls = <<>>

AppendCall ==
  /\ Len(aCalls) < MaxAppend
  /\ \E record \in AppendRecords :
       /\ aFile' = append_manifest_row(aFile, record, SILVER_HEADER)
       /\ aCalls' = Append(aCalls, record)
  /\ UNCHANGED <<aStart, engineVars, pipelineVars, callVars>>


(***************************************************************************)
(* The pipeline.  One process runs at a time: the stage's manifest is      *)
(* owned by that stage's driver for the run's duration.                    *)
(***************************************************************************)
FileNames == {FileB, FileNB}

RawRow(id, v) == [id |-> id, v |-> v]

\* the raw tables that are delivered to the pipeline
PipelineTables ==
  { <<RawRow(<<"1">>, <<"1">>)>>,
    <<RawRow(<<"1">>, <<"1">>), RawRow(<<"0", "1">>, <<"1">>), RawRow(<<"x">>, <<"1">>)>>,
    <<RawRow(<<"1">>, <<"1">>), RawRow(<<>>, <<"1">>), RawRow(<<"0", "1">>, <<"1">>)>> }

\* the metadata and rules files as a Silver unit may find them
SilverConfigs ==
  { <<MetaMissing, RulesMissing>>, <<MetaOther, RulesMissing>>,
    <<MetaIntKey, RulesMissing>>, <<MetaIntKey, RulesMalformed>>,
    <<MetaTextKey, RulesMissing>>, <<MetaNoColumn, RulesMissing>> }

\* ingestion_md.csv: the table name of a delivered file
IngestionTable(fname) == LastSegment(fname)

NoStore == [p \in {} |-> 0]

Put(store, path, content) ==
  [p \in DOMAIN store \cup {path} |-> IF p = path THEN content ELSE store[p]]

Snapshot ==
  [silverManifest |-> silverManifest, goldManifest |-> goldManifest,
   silverStore |-> silverStore, goldStore |-> goldStore]

NoSnapshot ==
  [silverManifest |-> Absent, goldManifest |-> Absent,
   silverStore |-> NoStore, goldStore |-> NoStore]

Resting(pc) == pc \in {"idle", "returned", "raised"}

\* a process that has exited leaves no state behind
SilverGone ==
  /\ sPc' = "idle" /\ sMem' = <<>> /\ sReady' = <<>> /\ sPos' = 0
  /\ sSnap' = NoSnapshot /\ sFlushes' = 0

GoldGone ==
  /\ gPc' = "idle" /\ gMem' = <<>> /\ gReady' = <<>> /\ gPos' = 0
  /\ gSnap' = NoSnapshot /\ gFlushes' = 0

NoRun == Resting(sPc) /\ Resting(gPc)

PipelineIdle ==
  /\ day = 1 /\ clock = 0 /\ ingested = 0
  /\ bronzeStore = NoStore /\ silverStore = NoStore /\ goldStore = NoStore
  /\ silverManifest = Absent /\ goldManifest = Absent
  /\ sPc = "idle" /\ sMem = <<>> /\ sReady = <<>> /\ sPos = 0
  /\ sSnap = NoSnapshot /\ sFlushes = 0
  /\ gPc = "idle" /\ gMem = <<>> /\ gReady = <<>> /\ gPos = 0
  /\ gSnap = NoSnapshot /\ gFlushes = 0

\* the calendar moves on
NextDay ==
  /\ NoRun
  /\ day < MaxDay
  /\ day' = day + 1
  /\ SilverGone /\ GoldGone
  /\ UNCHANGED <<clock, ingested, fileVars, engineVars, appendVars, callVars>>

(***************************************************************************)
(* bronze.ingest_to_bronze, one delivered file: the file is copied into    *)
(* today's partition (replacing a file of that name) and one READY row is  *)
(* appended to the Silver manifest.                                        *)
(***************************************************************************)
Ingest ==
  /\ NoRun
  /\ ingested < MaxIngest
  /\ \E fname \in FileNames, raw \in PipelineTables :
       /\ bronzeStore' = Put(bronzeStore, <<day, fname>>, raw)
       /\ silverManifest' =
            append_manifest_row(silverManifest,
                                Rec(IngestionTable(fname), day, fname, day, 0,
                                    IntStr(RowCount(raw)), <<>>, "READY", ""),
                                SILVER_HEADER)
  /\ ingested' = ingested + 1
  /\ SilverGone /\ GoldGone
  /\ UNCHANGED <<day, clock, silverStore, goldStore, goldManifest>>
  /\ UNCHANGED <<engineVars, appendVars, callVars>>

(***************************************************************************)
(* silver.ingest_to_silver                                                 *)
(***************************************************************************)
\* manifest.loc[idx, ...] on success
MarkSuccess(mem, idx, now, n) ==
  [mem EXCEPT ![idx] = [@ EXCEPT !.processed_at = now, !.rows_out = IntStr(n),
                                 !.status = "SUCCESS", !.error_msg = ""]]

\* manifest.loc[idx, ...] in the except clause
MarkFailed(mem, idx, now, e) ==
  [mem EXCEPT ![idx] = [@ EXCEPT !.processed_at = now, !.status = "FAILED",
                                 !.error_msg = e]]

\* a faulty record: the table name where the file name belongs
GoldRecordOfTable(row, now, n) ==
  Rec(row.table_name, row.partition, row.table_name, now, 0, IntStr(n), <<>>,
      "READY", "")

\* lines 76-87: the record for the Gold manifest
GoldRecord(row, now, n) ==
  Rec(row.table_name, row.partition, row.file, now, 0, IntStr(n), <<>>, "READY", "")

\* lines 26-35: read the manifest, select the READY rows
SilverStart ==
  /\ NoRun
  /\ clock < MaxRuns
  /\ clock' = clock + 1
  /\ sSnap' = Snapshot
  /\ sFlushes' = 0
  /\ LET m == ReadManifest(silverManifest)
         ready == ReadyIndices(m.rows, 1)
     IN /\ sMem' = m.rows
        /\ sReady' = ready
        /\ sPos' = 1
        /\ sPc' = IF ~ m.ok THEN "raised"
                  ELSE IF ready = <<>> THEN "returned"
                  ELSE "loop"
  /\ GoldGone
  /\ UNCHANGED <<day, ingested, fileVars, engineVars, appendVars, callVars>>

\* lines 43-95: one iteration of the loop
SilverRow ==
  /\ sPc = "loop"
  /\ LET idx == sReady[sPos]
         row == sMem[idx]
         bronze_path == <<row.partition, row.file>>
     IN \E there \in BOOLEAN, config \in SilverConfigs :
          IF ~ (there /\ bronze_path \in DOMAIN bronzeStore)
          THEN /\ sMem' = MarkFailed(sMem, idx, clock, "missing")
               /\ UNCHANGED <<silverStore, goldManifest>>
          ELSE LET c == Clean(row.file, bronzeStore[bronze_path], config[1], config[2])
                   n == Len(c.df.rows)
               IN IF c.ok
                  THEN /\ silverStore' = Put(silverStore, <<row.partition, c.table_name>>,
                                             [rows |-> n, from |-> row.file])
                       /\ sMem' = MarkSuccess(sMem, idx, clock, n)
                       /\ goldManifest' =
                            append_manifest_row(goldManifest, GoldRecord(row, clock, n),
                                                GOLD_HEADER)
                  ELSE /\ sMem' = MarkFailed(sMem, idx, clock, c.err)
                       /\ UNCHANGED <<silverStore, goldManifest>>
  /\ sPos' = sPos + 1
  /\ sPc' = IF sPos = Len(sReady) THEN "flush" ELSE "loop"
  /\ UNCHANGED <<envVars, bronzeStore, goldStore, silverManifest, sReady, sSnap, sFlushes>>
  /\ UNCHANGED <<goldVars, engineVars, appendVars, callVars>>

\* a faulty ending: the run returns after its loop without writing
SilverReturnUnflushed ==
  /\ sPc = "flush"
  /\ sPc' = "returned"
  /\ UNCHANGED <<envVars, fileVars, sMem, sReady, sPos, sSnap, sFlushes>>
  /\ UNCHANGED <<goldVars, engineVars, appendVars, callVars>>

\* line 98: manifest.to_csv(manifest_path, index=False)
SilverFlush ==
  /\ sPc = "flush"
  /\ silverManifest' = WriteManifest(sMem, SILVER_HEADER)
  /\ sFlushes' = sFlushes + 1
  /\ sPc' = "returned"
  /\ UNCHANGED <<envVars, bronzeStore, silverStore, goldStore, goldManifest>>
  /\ UNCHANGED <<sMem, sReady, sPos, sSnap, goldVars, engineVars, appendVars, callVars>>

(***************************************************************************)
(* gold.ingest_to_gold.  The derivations of BooksGoldTransformer read the  *)
(* book columns, which the tables of the model do not carry: a unit's      *)
(* transformation raises or keeps some of the rows of its input.           *)
(***************************************************************************)
\* lines 39-55: read the manifest and the column-order metadata, select
GoldStart ==
  /\ NoRun
  /\ clock < MaxRuns
  /\ clock' = clock + 1
  /\ gSnap' = Snapshot
  /\ gFlushes' = 0
  /\ \E gold_md_loads \in BOOLEAN :
       LET m == ReadManifest(goldManifest)
           ready == ReadyIndices(m.rows, 1)
       IN /\ gMem' = m.rows
          /\ gReady' = ready
          /\ gPos' = 1
          /\ gPc' = IF ~ m.ok \/ ~ gold_md_loads THEN "raised"
                    ELSE IF ready = <<>> THEN "returned"
                    ELSE "loop"
  /\ SilverGone
  /\ UNCHANGED <<day, ingested, fileVars, engineVars, appendVars, callVars>>

\* lines 57-116: one iteration of the loop
GoldRow ==
  /\ gPc = "loop"
  /\ LET idx == gReady[gPos]
         row == gMem[idx]
         silver_path == <<row.partition, row.file>>
         table_name == row.file
     IN \E there \in BOOLEAN :
          IF ~ (there /\ silver_path \in DOMAIN silverStore)
          THEN /\ gMem' = MarkFailed(gMem, idx, clock, "missing")
               /\ UNCHANGED goldStore
          ELSE \E kept \in (0..silverStore[silver_path].rows) \cup {None} :
                 IF kept # None
                 THEN /\ goldStore' = Put(goldStore, <<row.partition, table_name>>,
                                          [rows |-> kept, from |-> row.file])
                      /\ gMem' = MarkSuccess(gMem, idx, clock, kept)
                 ELSE /\ gMem' = MarkFailed(gMem, idx, clock, "KeyError")
                      /\ UNCHANGED goldStore
  /\ gPos' = gPos + 1
  /\ gPc' = IF gPos = Len(gReady) THEN "flush" ELSE "loop"
  /\ UNCHANGED <<envVars, bronzeStore, silverStore, silverManifest, goldManifest>>
  /\ UNCHANGED <<gReady, gSnap, gFlushes, silverVars, engineVars, appendVars, callVars>>

\* line 119: manifest.to_csv(manifest_path, index=False)
GoldFlush ==
  /\ gPc = "flush"
  /\ goldManifest' = WriteManifest(gMem, GOLD_HEADER)
  /\ gFlushes' = gFlushes + 1
  /\ gPc' = "returned"
  /\ UNCHANGED <<envVars, bronzeStore, silverStore, goldStore, silverManifest>>
  /\ UNCHANGED <<gMem, gReady, gPos, gSnap, silverVars, engineVars, appendVars, callVars>>

(***************************************************************************)
(* The tasks of dags/pipeline.py are declared without an order between     *)
(* them and nothing locks a manifest: a task may run while another is      *)
(* between its manifest read and its flush.                                *)
(***************************************************************************)
Running(pc) == pc \in {"loop", "flush"}

\* bronze.ingest_to_bronze, one delivered file, while a driver run is on
IngestDuringRun ==
  /\ Running(sPc) \/ Running(gPc)
  /\ ingested < MaxIngest
  /\ \E fname \in FileNames, raw \in PipelineTables :
       /\ bronzeStore' = Put(bronzeStore, <<day, fname>>, raw)
       /\ silverManifest' =
            append_manifest_row(silverManifest,
                                Rec(IngestionTable(fname), day, fname, day, 0,
                                    IntStr(RowCount(raw)), <<>>, "READY", ""),
                                SILVER_HEADER)
  /\ ingested' = ingested + 1
  /\ UNCHANGED <<day, clock, silverStore, goldStore, goldManifest>>
  /\ UNCHANGED <<silverVars, goldVars, engineVars, appendVars, callVars>>

\* gold.ingest_to_gold lines 39-55, while a Silver run is on
GoldStartDuringSilver ==
  /\ Running(sPc) /\ Resting(gPc)
  /\ clock < MaxRuns
  /\ clock' = clock + 1
  /\ gSnap' = Snapshot
  /\ gFlushes' = 0
  /\ \E gold_md_loads \in BOOLEAN :
       LET m == ReadManifest(goldManifest)
           ready == ReadyIndices(m.rows, 1)
       IN /\ gMem' = m.rows
          /\ gReady' = ready
          /\ gPos' = 1
          /\ gPc' = IF ~ m.ok \/ ~ gold_md_loads THEN "raised"
                    ELSE IF ready = <<>> THEN "returned"
                    ELSE "loop"
  /\ UNCHANGED <<day, ingested, fileVars, silverVars, engineVars, appendVars, callVars>>

NextOverlapping ==
  \/ Ingest
  \/ IngestDuringRun
  \/ SilverStart
  \/ SilverRow
  \/ SilverFlush
  \/ GoldStartDuringSilver
  \/ GoldRow
  \/ GoldFlush

(***************************************************************************)
(* One call of a helper on an argument.                                    *)
(***************************************************************************)
CallIdle == fPc = "idle" /\ fArg = <<>> /\ fRes = <<>>

\* the characters of an ISBN-10 code
IsbnChars == Range(Digits) \cup {"X"}

\* 0306406152 and 080442957X
IsbnBases ==
  { <<"0", "3", "0", "6", "4", "0", "6", "1", "5", "2">>,
    <<"0", "8", "0", "4", "4", "2", "9", "5", "7", "X">> }

\* the two codes, each with one character replaced, cut short or extended
IsbnCodes ==
  {[b EXCEPT ![i] = ch] : b \in IsbnBases, i \in 1..10, ch \in IsbnChars}
    \cup {SubSeq(b, 1, 9) : b \in IsbnBases}
    \cup {b \o <<"0">> : b \in IsbnBases}

IsbnInit == fPc = "ready" /\ fArg \in IsbnCodes /\ fRes = FALSE

\* mask10 = self.df["isbn"].apply(validate_isbn10_checksum), one value
IsbnCall ==
  /\ fPc = "ready"
  /\ fRes' = validate_isbn10_checksum(fArg)
  /\ fPc' = "done"
  /\ UNCHANGED <<fArg, engineVars, appendVars, pipelineVars>>

(***************************************************************************)
(* BooksGoldTransformer.clean_publisher_name, on a text.                   *)
(***************************************************************************)
UpperCase ==
  <<"A", "B", "C", "D", "E", "F", "G", "H", "I", "J", "K", "L", "M", "N", "O", "P", "Q", "R", "S", "T", "U", "V", "W", "X", "Y", "Z">>

LowerCase ==
  <<"a", "b", "c", "d", "e", "f", "g", "h", "i", "j", "k", "l", "m", "n", "o", "p", "q", "r", "s", "t", "u", "v", "w", "x", "y", "z">>

IsUpper(c) == \E i \in 1..26 : UpperCase[i] = c

IsLower(c) == \E i \in 1..26 : LowerCase[i] = c

\* str.lower of one character
LowerChar(c) ==
  IF IsUpper(c) THEN LowerCase[CHOOSE i \in 1..26 : UpperCase[i] = c] ELSE c

UpperChar(c) ==
  IF IsLower(c) THEN UpperCase[CHOOSE i \in 1..26 : LowerCase[i] = c] ELSE c

\* str.lower
Lower(s) == [i \in 1..Len(s) |-> LowerChar(s[i])]

\* str.title: a letter after a character that is no letter is upper case,
\* every other letter lower case
Title(s) ==
  [i \in 1..Len(s) |->
     IF i = 1 \/ ~ (IsUpper(s[i - 1]) \/ IsLower(s[i - 1]))
     THEN UpperChar(s[i]) ELSE LowerChar(s[i])]

IsSpace(c) == c = " "

RECURSIVE RStrip(_)
RStrip(s) ==
  IF s # <<>> /\ IsSpace(s[Len(s)]) THEN RStrip(SubSeq(s, 1, Len(s) - 1)) ELSE s

RECURSIVE LStrip(_)
LStrip(s) ==
  IF s # <<>> /\ IsSpace(s[1]) THEN LStrip(SubSeq(s, 2, Len(s))) ELSE s

\* str.strip
Strip(s) == LStrip(RStrip(s))

EndsWith(s, w) == Len(s) >= Len(w) /\ SubSeq(s, Len(s) - Len(w) + 1, Len(s)) = w

\* line 295
formal_words ==
  << <<"i", "n", "c", ".">>,
     <<"i", "n", "c">>,
     <<"l", "t", "d">>,
     <<"l", "l", "c">>,
     <<"p", "r", "e", "s", "s">>,
     <<"p", "u", "b", "l", "i", "s", "h", "i", "n", "g">>,
     <<"b", "o", "o", "k", "s">>,
     <<"c", "o", "m", "p", "a", "n", "y">>,
     <<"c", "o", "r", "p", ".">>,
     <<"c", "o", "r", "p", "o", "r", "a", "t", "i", "o", "n">>,
     <<"l", "i", "m", "i", "t", "e", "d">>,
     <<"v", "e", "r", "l", "a", "g">> >>

\* re.sub(r"\s*" + re.escape(word) + r"\s*$", "", name)
RemoveAtEnd(name, word) ==
  LET t == RStrip(name)
  IN IF EndsWith(t, word) THEN RStrip(SubSeq(t, 1, Len(t) - Len(word))) ELSE name

\* lines 301-302: one pass over the words, from the i-th on
RECURSIVE RemoveFormalWords(_, _)
RemoveFormalWords(name, i) ==
  IF i > Len(formal_words) THEN name
  ELSE RemoveFormalWords(RemoveAtEnd(name, formal_words[i]), i + 1)

clean_publisher_name(name) == Title(Strip(RemoveFormalWords(Lower(name), 1)))

\* names to standardize: a name and up to n endings after it
PublisherBases == { <<"R", "a", "n", "d", "o", "m", " ", "H", "o", "u", "s", "e">>, <<"Z", "i", "n", "c">> }

PublisherEndings ==
  { <<" ", "I", "n", "c">>,
    <<" ", "I", "n", "c", ".">>,
    <<",", " ", "I", "n", "c", ".">>,
    <<" ", "P", "r", "e", "s", "s">>,
    <<" ", "L", "t", "d">>,
    <<" ">> }

RECURSIVE PublisherNames(_)
PublisherNames(n) ==
  IF n = 0 THEN PublisherBases
  ELSE PublisherNames(n - 1)
       \cup {b \o e : b \in PublisherNames(n - 1), e \in PublisherEndings}

PublisherInit == fPc = "ready" /\ fArg \in PublisherNames(MaxEndings) /\ fRes = <<>>

\* self.df["publisher"].apply(BooksGoldTransformer.clean_publisher_name)
PublisherCall ==
  /\ fPc = "ready"
  /\ fRes' = clean_publisher_name(fArg)
  /\ fPc' = "done"
  /\ UNCHANGED <<fArg, engineVars, appendVars, pipelineVars>>

\* the function applied to its own result
PublisherCallAgain ==
  /\ fPc = "done"
  /\ fArg' = fRes
  /\ fRes' = clean_publisher_name(fRes)
  /\ fPc' = "again"
  /\ UNCHANGED <<engineVars, appendVars, pipelineVars>>

PublisherNext == PublisherCall \/ PublisherCallAgain

(***************************************************************************)
(* Specifications.                                                         *)
(***************************************************************************)
Init == EngineIdle /\ AppendIdle /\ PipelineIdle /\ CallIdle

Next ==
  \/ NextDay
  \/ Ingest
  \/ SilverStart
  \/ SilverRow
  \/ SilverFlush
  \/ GoldStart
  \/ GoldRow
  \/ GoldFlush

\* the pipeline
Spec == Init /\ [][Next]_vars

\* one Validation Engine invocation on a bounded raw table
InitEngine == EngineInit /\ AppendIdle /\ PipelineIdle /\ CallIdle

SpecEngine == InitEngine /\ [][EngineNext]_vars

\* the pipeline with its tasks overlapping
SpecOverlapping == Init /\ [][NextOverlapping]_vars

\* one manifest path under append_manifest_row calls
InitAppend == EngineIdle /\ AppendInit /\ PipelineIdle /\ CallIdle

SpecAppend == InitAppend /\ [][AppendCall]_vars

\* one call of validate_isbn10_checksum
InitIsbn == EngineIdle /\ AppendIdle /\ PipelineIdle /\ IsbnInit

SpecIsbn == InitIsbn /\ [][IsbnCall]_vars

\* clean_publisher_name on a name, and then on its result
InitPublisher == EngineIdle /\ AppendIdle /\ PipelineIdle /\ PublisherInit

SpecPublisher == InitPublisher /\ [][PublisherNext]_vars


(***************************************************************************)
(* Properties.                                                             *)
(***************************************************************************)
\* the records of the data lines of a manifest file
DataRows(file) ==
  IF file.lines = <<>> THEN <<>>
  ELSE [i \in 1..(Len(file.lines) - 1) |-> file.lines[i + 1].rec]

Terminal(status) == status \in {"SUCCESS", "FAILED"}

\* the rows that were terminal in old are the same in new
TerminalKept(old, new) ==
  \A i \in 1..Len(old) :
    Terminal(old[i].status) => i <= Len(new) /\ new[i] = old[i]

SilverRan == sPc \in {"loop", "flush", "returned"}

GoldRan == gPc \in {"loop", "flush", "returned"}

\* C1: a manifest row that is SUCCESS or FAILED when a Silver or Gold run
\* starts is the same row (status, rows_out, processed-at, error message)
\* in the manifest the run leaves, and no run sets a row back to READY.
C1_TerminalRowsUntouched ==
  /\ sPc = "returned" =>
       TerminalKept(DataRows(sSnap.silverManifest), DataRows(silverManifest))
  /\ gPc = "returned" =>
       TerminalKept(DataRows(gSnap.goldManifest), DataRows(goldManifest))

\* the part of C1 that is about the status alone: a terminal status stays
C1_StatusKept ==
  /\ sPc = "returned" =>
       \A i \in 1..Len(DataRows(sSnap.silverManifest)) :
         Terminal(DataRows(sSnap.silverManifest)[i].status) =>
           DataRows(silverManifest)[i].status = DataRows(sSnap.silverManifest)[i].status
  /\ gPc = "returned" =>
       \A i \in 1..Len(DataRows(gSnap.goldManifest)) :
         Terminal(DataRows(gSnap.goldManifest)[i].status) =>
           DataRows(goldManifest)[i].status = DataRows(gSnap.goldManifest)[i].status

\* the indices, among ready[1..n], of the rows of mem that are SUCCESS
RECURSIVE Succeeded(_, _, _)
Succeeded(mem, ready, n) ==
  IF n = 0 THEN <<>>
  ELSE Succeeded(mem, ready, n - 1)
       \o (IF mem[ready[n]].status = "SUCCESS" THEN <<ready[n]>> ELSE <<>>)

SameUnit(g, r) ==
  /\ g.table_name = r.table_name
  /\ g.source_name = r.source_name
  /\ g.partition = r.partition
  /\ g.file = r.file

\* C2: through a Silver run the Gold manifest keeps the rows it had and has
\* gained, in processing order, exactly one READY row per row the run has
\* set SUCCESS, carrying that row's table, source, partition and file name;
\* a row set FAILED has added nothing.
C2_OneGoldRowPerSuccess ==
  SilverRan =>
    LET old == DataRows(sSnap.goldManifest)
        now == DataRows(goldManifest)
        succ == Succeeded(sMem, sReady, sPos - 1)
    IN /\ Len(now) = Len(old) + Len(succ)
       /\ \A i \in 1..Len(old) : now[i] = old[i]
       /\ \A k \in 1..Len(succ) :
            /\ SameUnit(now[Len(old) + k], sMem[succ[k]])
            /\ now[Len(old) + k].status = "READY"

\* a Silver run has ended with one row SUCCESS and another FAILED
C2_Witness ==
  /\ sPc = "returned"
  /\ \E i, j \in 1..Len(sReady) :
       /\ sMem[sReady[i]].status = "SUCCESS"
       /\ sMem[sReady[j]].status = "FAILED"

HasReady(file) == \E i \in 1..Len(DataRows(file)) : DataRows(file)[i].status = "READY"

\* the rows that were READY in old are terminal in new, a FAILED one with
\* its error message
AllProcessed(old, new) ==
  /\ Len(new) = Len(old)
  /\ \A i \in 1..Len(old) :
       old[i].status = "READY" =>
         /\ Terminal(new[i].status)
         /\ new[i].status = "FAILED" => new[i].error_msg # ""

\* C3: a Silver or Gold run that starts with at least one READY row never
\* raises, whatever file is missing or cannot be loaded, and when it
\* returns every one of those rows is SUCCESS or FAILED in the persisted
\* manifest.
C3_BatchAlwaysCompletes ==
  /\ HasReady(sSnap.silverManifest) =>
       /\ sPc # "raised"
       /\ sPc = "returned" =>
            AllProcessed(DataRows(sSnap.silverManifest), DataRows(silverManifest))
  /\ HasReady(gSnap.goldManifest) =>
       /\ gPc # "raised"
       /\ gPc = "returned" =>
            AllProcessed(DataRows(gSnap.goldManifest), DataRows(goldManifest))

\* C4, every run: a run that ends has flushed exactly once.
C4_EveryRunFlushesOnce ==
  /\ sPc = "returned" => sFlushes = 1
  /\ gPc = "returned" => gFlushes = 1

\* C4, runs with READY rows: a run flushes at most once and never before or during its
\* loop; a run that found READY rows and returns has flushed exactly once,
\* and the file is the in-memory manifest after its last update; a run that
\* finds no READY row, or raises, ends without a flush.
C4_FlushOnceAfterLoop ==
  /\ sPc \in {"loop", "flush", "raised"} => sFlushes = 0
  /\ gPc \in {"loop", "flush", "raised"} => gFlushes = 0
  /\ sPc = "returned" =>
       IF sReady = <<>> THEN sFlushes = 0
       ELSE sFlushes = 1 /\ silverManifest = WriteManifest(sMem, SILVER_HEADER)
  /\ gPc = "returned" =>
       IF gReady = <<>> THEN gFlushes = 0
       ELSE gFlushes = 1 /\ goldManifest = WriteManifest(gMem, GOLD_HEADER)

\* a Gold run has processed two rows and flushed
C4_Witness == gPc = "returned" /\ Len(gReady) = 2 /\ gFlushes = 1

\* the manifest is readable and has no READY row
NothingReady(file) == ReadManifest(file).ok /\ ~ HasReady(file)

\* C5: a Silver or Gold run started on a manifest with no READY row
\* returns normally, and the manifests and the output files are as they
\* were when it started.
C5_NoReadyIsNoOp ==
  /\ sPc # "idle" /\ NothingReady(sSnap.silverManifest) =>
       sPc = "returned" /\ Snapshot = sSnap
  /\ gPc # "idle" /\ NothingReady(gSnap.goldManifest) =>
       gPc = "returned" /\ Snapshot = gSnap

\* the part of C5 that is about the files alone
C5_NoReadyChangesNothing ==
  /\ sPc # "idle" /\ NothingReady(sSnap.silverManifest) => Snapshot = sSnap
  /\ gPc # "idle" /\ NothingReady(gSnap.goldManifest) => Snapshot = gSnap

UnitKey(r) == <<r.table_name, r.partition, r.file>>

OneRowPerUnit(rows) ==
  \A i, j \in 1..Len(rows) : UnitKey(rows[i]) = UnitKey(rows[j]) => i = j

\* C6: each manifest holds one row per (table, partition, file).
C6_OneRowPerUnit ==
  /\ OneRowPerUnit(DataRows(silverManifest))
  /\ OneRowPerUnit(DataRows(goldManifest))

RowsOutWithinRowsIn(rows) ==
  \A i \in 1..Len(rows) :
    rows[i].status = "SUCCESS" =>
      NumTextVal(rows[i].rows_out) <= NumTextVal(rows[i].rows_in)

\* C7: every Silver manifest row that is SUCCESS has rows_out <= rows_in.
C7_RowsOutWithinRowsIn ==
  /\ RowsOutWithinRowsIn(DataRows(silverManifest))
  /\ SilverRan => RowsOutWithinRowsIn(sMem)

\* the lines a DataFrame's rows were read from
Lines(rows) == [i \in 1..Len(rows) |-> rows[i].line]

Increasing(seq) == \A i, j \in 1..Len(seq) : i < j => seq[i] < seq[j]

\* the part of C7 that is about the engine alone: every stage returns a
\* sub-sequence of the rows it received
C7_StagesOnlyDropRows ==
  [][ /\ Increasing(Lines(eC'.df.rows))
      /\ Range(Lines(eC'.df.rows)) \subseteq
           (IF ePc = "new" THEN 1..Len(eRaw) ELSE Range(Lines(eC.df.rows))) ]_vars

\* the primary-key tuple of a row
KeyOf(row, pk_cols) == [c \in pk_cols |-> row[c]]

\* C8: in the dataset the engine writes, every primary-key tuple is
\* non-null and no two rows have the same one.
C8_WrittenKeysUnique ==
  ePc = "saved" =>
    LET pk_cols == Range(FlagCols(eC.meta, "PK", 1))
        rows == eC.df.rows
    IN /\ \A i \in 1..Len(rows) : \A c \in pk_cols : rows[i][c].t # "null"
       /\ \A i, j \in 1..Len(rows) :
            KeyOf(rows[i], pk_cols) = KeyOf(rows[j], pk_cols) => i = j

HasRun(stage) == stage \in Range(eLog)

\* C9: default fill runs before the null check, the range check and the
\* regex check, and datatype coercion before the range check.
C9_DefaultsAndTypesFirst ==
  /\ HasRun("validate_non_nulls") => HasRun("apply_defaults")
  /\ HasRun("apply_ranges") => HasRun("apply_defaults")
  /\ HasRun("apply_regex") => HasRun("apply_defaults")
  /\ HasRun("apply_ranges") => HasRun("validate_datatype")

\* one header line, first, then the appended records in call order
HeaderThenRows(file, header, records) ==
  file.lines = <<HeaderLine(header)>> \o [i \in 1..Len(records) |-> RowLine(records[i])]

\* C10, both starts: from a path that is absent or present and empty, after
\* n >= 1 appends the file is one header line and then the n rows.
C10_HeaderThenRows ==
  Len(aCalls) >= 1 => HeaderThenRows(aFile, SILVER_HEADER, aCalls)

\* C10, by start: from an absent path, after n >= 1 appends the file is one
\* header line and then the n rows in call order; on a path that is present
\* and empty no header is written and the file is the n rows alone.
C10_HeaderWhenAbsent ==
  Len(aCalls) >= 1 =>
    IF aStart = Absent THEN HeaderThenRows(aFile, SILVER_HEADER, aCalls)
    ELSE aFile.lines = [i \in 1..Len(aCalls) |-> RowLine(aCalls[i])]

\* two records appended to a path that was absent
C10_Witness == aStart = Absent /\ Len(aCalls) = 2

\* a primary-key column of row i is null
NullKey(rows, pk_cols, i) == \E c \in pk_cols : rows[i][c].t = "null"

\* row i has its keys and repeats the key tuple of an earlier such row
RepeatedKey(rows, pk_cols, i) ==
  /\ ~ NullKey(rows, pk_cols, i)
  /\ \E j \in 1..(i - 1) :
       ~ NullKey(rows, pk_cols, j) /\ \A c \in pk_cols : rows[j][c] = rows[i][c]

\* n - a - d of a loaded table
KeyedRows(rows, pk_cols) ==
  Len(rows) - Cardinality({i \in 1..Len(rows) : NullKey(rows, pk_cols, i)})
            - Cardinality({i \in 1..Len(rows) : RepeatedKey(rows, pk_cols, i)})

\* the stages from the i-th on return as many rows as they receive
RECURSIVE KeepAll(_, _, _, _)
KeepAll(df, meta, rules, i) ==
  IF i > Len(StageOrder) THEN TRUE
  ELSE LET r == RunStage(StageOrder[i], df, meta, rules)
       IN r.ok /\ Len(r.df.rows) = Len(df.rows) /\ KeepAll(r.df, meta, rules, i + 1)

\* under this configuration the table has a primary key in its columns and
\* no stage after the primary-key stage drops a row
OnlyKeysDrop(fname, raw, config) ==
  LET c == DataCleaningInit(fname, raw, config[1], config[2])
      pk_cols == Range(FlagCols(c.meta, "PK", 1))
      r == validate_primary_keys(c.df, c.meta, c.rules)
  IN c.ok /\ pk_cols # {} /\ pk_cols \subseteq Columns /\ r.ok
       /\ KeepAll(r.df, c.meta, c.rules, 2)

\* what the claim expects of a manifest row for a raw table and configuration
CountsAsExpected(row, raw, config) ==
  LET c == DataCleaningInit(row.file, raw, config[1], config[2])
      pk_cols == Range(FlagCols(c.meta, "PK", 1))
  IN /\ NumTextVal(row.rows_in) = Len(raw)
     /\ NumTextVal(row.rows_out) = KeyedRows(ReadCsv(raw).rows, pk_cols)

\* the file of this manifest row was delivered once
DeliveredOnce(mem, i) == \A j \in 1..Len(mem) : UnitKey(mem[j]) = UnitKey(mem[i]) => j = i

IsbnVal(c) == IF c = "X" THEN 10 ELSE DigitVal(c)

\* 10*d1 + 9*d2 + ... + 1*d10
RECURSIVE IsbnSum(_, _)
IsbnSum(code, n) ==
  IF n = 0 THEN 0 ELSE IsbnSum(code, n - 1) + (11 - n) * IsbnVal(code[n])

\* nine digits, then a digit or X, the weighted sum divisible by 11
ValidIsbn10(code) ==
  /\ Len(code) = 10
  /\ \A i \in 1..9 : IsDigit(code[i])
  /\ code[10] \in IsbnChars
  /\ IsbnSum(code, 10) % 11 = 0

\* C12: validate_isbn10_checksum returns true for exactly the valid ISBN-10
\* codes, those ending in the check character X included.
C12_TrueForValidCodes ==
  fPc = "done" => (fRes <=> ValidIsbn10(fArg))

\* the part of C12 that is about codes of ten digits
C12_TrueForValidDigitCodes ==
  (fPc = "done" /\ AllDigits(fArg)) => (fRes <=> ValidIsbn10(fArg))

\* a valid code that ends in X has been refused
C12_Witness ==
  fPc = "done" /\ fArg[Len(fArg)] = "X" /\ ValidIsbn10(fArg) /\ ~ fRes

\* what may be left behind at the end of a name
IsSeparator(c) == c \in {" ", ","}

\* s ends with the word w as a token of its own
EndsWithToken(s, w) ==
  EndsWith(s, w) /\ (Len(s) = Len(w) \/ IsSeparator(s[Len(s) - Len(w)]))

\* s without its trailing suffix tokens and separators, removed until none
\* remains
RECURSIVE WithoutSuffixes(_)
WithoutSuffixes(s) ==
  IF s = <<>> THEN s
  ELSE IF IsSeparator(s[Len(s)]) THEN WithoutSuffixes(SubSeq(s, 1, Len(s) - 1))
  ELSE IF \E i \in 1..Len(formal_words) : EndsWithToken(s, formal_words[i])
    THEN LET i == CHOOSE i \in 1..Len(formal_words) : EndsWithToken(s, formal_words[i])
         IN WithoutSuffixes(SubSeq(s, 1, Len(s) - Len(formal_words[i])))
  ELSE s

Standardized(name) == Title(Strip(WithoutSuffixes(Lower(name))))

\* C13: the result is the title-cased name with every trailing suffix token
\* and the separators left behind removed ("Random House, Inc." gives
\* "Random House"), and the function applied to its own result returns it
\* unchanged.
C13_SuffixesRemoved ==
  /\ fPc = "done" => fRes = Standardized(fArg)
  /\ fPc = "again" => fRes = fArg

\* "Random House, Inc." has been standardized and the comma is still there
C13_Witness ==
  /\ fPc = "done"
  /\ fArg = <<"R", "a", "n", "d", "o", "m", " ", "H", "o", "u", "s", "e", ",", " ", "I", "n", "c", ".">>
  /\ fRes = <<"R", "a", "n", "d", "o", "m", " ", "H", "o", "u", "s", "e", ",">>

\* every row's value in the rule's column, as a string, satisfies Matches
RegexRulesHold(df, regex, Matches(_, _)) ==
  \A i \in 1..Len(regex) :
    regex[i].col \in Columns =>
      \A k \in 1..Len(df.rows) :
        Matches(regex[i].pattern, CellStr(df.rows[k][regex[i].col], df.dt[regex[i].col]))

\* C14: once the regex filter has run, every remaining row's value in a
\* rule's column matches the rule's pattern over its whole length.
C14_RemainingFullyMatch ==
  (ePc \in {"run", "saved"} /\ HasRun("apply_regex")) =>
    RegexRulesHold(eC.df, eC.rules.regex, FullMatch)

\* the part of C14 that the filter does give: a prefix of every remaining
\* value matches the pattern
C14_RemainingMatchAtStart ==
  (ePc \in {"run", "saved"} /\ HasRun("apply_regex")) =>
    RegexRulesHold(eC.df, eC.rules.regex, Match)

\* a dataset has been written in which a value is longer than the part of
\* it that matches its rule's pattern
C14_Witness ==
  /\ ePc = "saved"
  /\ RegexRulesHold(eC.df, eC.rules.regex, Match)
  /\ ~ RegexRulesHold(eC.df, eC.rules.regex, FullMatch)

\* apply_defaults was the last stage to run
DefaultsJustRan ==
  ePc = "run" /\ eLog # <<>> /\ eLog[Len(eLog)] = "apply_defaults"

\* the rows whose value in col was empty in the raw file hold val
NullsHoldDefault(df, raw, col, val) ==
  \A k \in 1..Len(df.rows) :
    raw[df.rows[k].line][col] = <<>> => df.rows[k][col] = Num(val)

\* the declared datatype of a column, "" when the metadata has no row for it
DeclaredType(meta, col) ==
  IF \E i \in 1..Len(meta) : meta[i].column_name = col
  THEN meta[CHOOSE i \in 1..Len(meta) : meta[i].column_name = col].dtype
  ELSE ""

\* C15: after the default fill, for every column that has a default and is
\* in the data, every row whose value was null in the raw input holds the
\* default, whatever the column's declared datatype.
C15_NullsHoldDefault ==
  DefaultsJustRan =>
    \A i \in 1..Len(eC.rules.defaults) :
      eC.rules.defaults[i].col \in Columns =>
        NullsHoldDefault(eC.df, eRaw, eC.rules.defaults[i].col, eC.rules.defaults[i].val)

\* the part of C15 that is about the columns that are not coerced to string
C15_NumericNullsHoldDefault ==
  DefaultsJustRan =>
    \A i \in 1..Len(eC.rules.defaults) :
      (/\ eC.rules.defaults[i].col \in Columns
       /\ DeclaredType(eC.meta, eC.rules.defaults[i].col)
            \in {"", "int", "integer", "float", "double"}) =>
        NullsHoldDefault(eC.df, eRaw, eC.rules.defaults[i].col, eC.rules.defaults[i].val)

\* the default fill has run and a row whose value was null in the raw input
\* holds the text nan in a column that has a default
C15_Witness ==
  /\ DefaultsJustRan
  /\ \E i \in 1..Len(eC.rules.defaults) :
       /\ eC.rules.defaults[i].col \in Columns
       /\ \E k \in 1..Len(eC.df.rows) :
            /\ eRaw[eC.df.rows[k].line][eC.rules.defaults[i].col] = <<>>
            /\ eC.df.rows[k][eC.rules.defaults[i].col] = Str(NanText)

\* the Silver file a Gold manifest row names is there and was written from
\* the raw file of that row
NamesWrittenFile(g) ==
  /\ <<g.partition, g.file>> \in DOMAIN silverStore
  /\ silverStore[<<g.partition, g.file>>].from = g.file

\* C16: every row a Silver run has appended to the Gold manifest names, by
\* its partition and file, the file the run wrote for that unit.
C16_GoldRowsNameWrittenFile ==
  SilverRan =>
    \A i \in (Len(DataRows(sSnap.goldManifest)) + 1)..Len(DataRows(goldManifest)) :
      NamesWrittenFile(DataRows(goldManifest)[i])

\* the other part of C16: a Silver output path is never written from two
\* different raw files
C16_NoSharedOutputPath ==
  [][\A path \in DOMAIN silverStore :
       silverStore'[path].from = silverStore[path].from]_vars

\* the part of C16 that holds: the rows appended for files whose name has
\* no underscore name the file written, while no other file is written to
\* that path
C16_PlainNamesWrittenFile ==
  SilverRan =>
    \A i \in (Len(DataRows(sSnap.goldManifest)) + 1)..Len(DataRows(goldManifest)) :
      LET g == DataRows(goldManifest)[i]
      IN LastSegment(g.file) = g.file =>
           /\ <<g.partition, g.file>> \in DOMAIN silverStore
           /\ LastSegment(silverStore[<<g.partition, g.file>>].from) = g.file

\* a Silver run has ended with a row appended to the Gold manifest for a
\* file whose name has an underscore, and no Silver file has that name
C16_Witness ==
  /\ sPc = "returned"
  /\ \E i \in (Len(DataRows(sSnap.goldManifest)) + 1)..Len(DataRows(goldManifest)) :
       LET g == DataRows(goldManifest)[i]
       IN g.file = FileNB /\ <<g.partition, g.file>> \notin DOMAIN silverStore

\* every SUCCESS row of the Silver manifest in memory has its row in the
\* Gold manifest file
EverySuccessInGold ==
  \A i \in 1..Len(sMem) :
    sMem[i].status = "SUCCESS" =>
      \E j \in 1..Len(DataRows(goldManifest)) : SameUnit(DataRows(goldManifest)[j], sMem[i])

\* C17: no manifest row is lost: the Silver manifest holds one row per file
\* ingested, whenever the files were ingested, and once a Silver run and a
\* Gold run have both returned every row the Silver run set SUCCESS has its
\* row in the Gold manifest.
C17_NoRowLost ==
  /\ Len(DataRows(silverManifest)) = ingested
  /\ (sPc = "returned" /\ gPc = "returned") => EverySuccessInGold

\* a Silver run has flushed after a file was ingested during the run, and
\* the manifest has fewer rows than files were ingested
C17_Witness ==
  sPc = "returned" /\ sFlushes = 1 /\ Len(DataRows(silverManifest)) < ingested

=============================================================================
